---- MODULE Spec2Model ----
(***************************************************************************)
(* Model of gouroboros: the ChainSync protocol definition (state map and   *)
(* configuration) and the Handshake client, on top of the mini-protocol    *)
(* runtime the specification describes.                                    *)
(***************************************************************************)
EXTENDS Integers, Sequences, FiniteSets, TLC

VARIABLES
    config,      \* chainsync.Config built by NewConfig
    state,       \* ChainSync client: current protocol state
    inflight,    \* ChainSync client: RequestNext sent and not yet answered
    pending,     \* ChainSync client: RequestNext calls held in the send queue
    nextReq,     \* ChainSync client: number of the next RequestNext
    finds,       \* ChainSync client: FindIntersect messages sent
    c2s,         \* ChainSync: messages in flight client -> server
    s2c,         \* ChainSync: messages in flight server -> client
    srvState,    \* ChainSync server: its view of the protocol state
    srvReq,      \* ChainSync server: the request it is answering
    callbacks,   \* ChainSync client: callbacks fired, in order
    failed,      \* ChainSync client: the protocol failed (error surfaced)
    lastSend,    \* ChainSync client: the SendMessage call just made and its outcome
    lastRecv,    \* ChainSync client: the message the receive pump just took and its outcome
    srvFaulty,   \* ChainSync server: it has sent a message its state does not allow
    visited,     \* ChainSync client: the protocol states it has been in
    scenario,    \* ChainSync client: in-flight counts along the pipelined-ordering scenario
    hsMode,      \* Handshake client: protocol mode (NodeToNode or NodeToClient)
    hsConfig,    \* Handshake client: its Config
    onceStart,   \* Handshake client: the sync.Once guarding Start
    pc,          \* Handshake client: where each caller of Start is in its call
    started,     \* Handshake client: times the underlying Protocol was started
    sent,        \* Handshake client: messages handed to SendMessage
    hsState,     \* Handshake client: current protocol state
    finished,    \* Handshake client: invocations of FinishedFunc, in order
    handled,     \* Handshake client: the message received and what became of it
    hsStateMap,  \* Handshake client: the state map NewClient gave its Protocol
    hsError,     \* Handshake client: the fatal error its Protocol stopped with
    dropped,     \* Handshake client: messages that arrived after the Protocol stopped
    stateMaps,   \* handshake package: the state maps in memory, StateMap first
    clients,     \* handshake package: the clients NewClient has returned
    options,     \* chainsync: the options of the last call of NewConfig
    lookups,     \* ouroboros: the network lookups made and their results
    addrData,    \* ledger: the bytes an Address is populated from
    addrSpare,   \* ledger: the bytes of their backing array beyond their length
    addrStatus,  \* ledger: whether the Address is new, populated, or populating it panicked
    addr,        \* ledger: the Address
    stakeAddr,   \* ledger: what StakeAddress returned for the Address
    addrBytes    \* ledger: what Bytes returned for the Address

csVars == <<config, state, inflight, pending, nextReq, finds, c2s, s2c,
            srvState, srvReq, callbacks, failed, lastSend, lastRecv, srvFaulty,
            visited, scenario>>

hsVars == <<hsMode, hsConfig, onceStart, pc, started, sent, hsState,
            finished, handled, hsStateMap, hsError, dropped>>

ncVars == <<stateMaps, clients>>

adVars == <<addrData, addrSpare, addrStatus, addr, stakeAddr, addrBytes>>

vars == <<csVars, hsVars, ncVars, options, lookups, adVars>>

-----------------------------------------------------------------------------
(* Bounds of the model *)

MaxPipelineLimit == 3
MaxRequests == 4
MaxFinds == 2
MaxVersions == 2
MaxCallers == 2
MaxDropped == 1
MaxClients == 3
MaxOptions == 3
MaxLookups == 2
MaxNetworkId == 5
MaxTail == 2

-----------------------------------------------------------------------------
(* protocol package: agencies *)

AgencyNone == "None"
AgencyClient == "Client"
AgencyServer == "Server"

(* chainsync message types *)

MessageTypeRequestNext == "RequestNext"
MessageTypeAwaitReply == "AwaitReply"
MessageTypeRollForward == "RollForward"
MessageTypeRollBackward == "RollBackward"
MessageTypeFindIntersect == "FindIntersect"
MessageTypeIntersectFound == "IntersectFound"
MessageTypeIntersectNotFound == "IntersectNotFound"
MessageTypeDone == "Done"

ClientMsgTypes ==
    {MessageTypeRequestNext, MessageTypeFindIntersect, MessageTypeDone}

ServerMsgTypes ==
    {MessageTypeAwaitReply, MessageTypeRollForward, MessageTypeRollBackward,
     MessageTypeIntersectFound, MessageTypeIntersectNotFound}

MsgTypes == ClientMsgTypes \cup ServerMsgTypes

(* chainsync states *)

stateIdle == "Idle"
stateCanAwait == "CanAwait"
stateMustReply == "MustReply"
stateIntersect == "Intersect"
stateDone == "Done"

StateTransition(m, s) == [MsgType |-> m, NewState |-> s]

\* StateMap with a wrong target: AwaitReply leads back to Idle
StateMap_AwaitReplyToIdle ==
    (stateIdle :> [Agency |-> AgencyClient,
                   Transitions |-> <<StateTransition(MessageTypeRequestNext, stateCanAwait),
                                     StateTransition(MessageTypeFindIntersect, stateIntersect),
                                     StateTransition(MessageTypeDone, stateDone)>>])
 @@ (stateCanAwait :> [Agency |-> AgencyServer,
                       Transitions |-> <<StateTransition(MessageTypeAwaitReply, stateIdle),
                                         StateTransition(MessageTypeRollForward, stateIdle),
                                         StateTransition(MessageTypeRollBackward, stateIdle)>>])
 @@ (stateIntersect :> [Agency |-> AgencyServer,
                        Transitions |-> <<StateTransition(MessageTypeIntersectFound, stateIdle),
                                          StateTransition(MessageTypeIntersectNotFound, stateIdle)>>])
 @@ (stateMustReply :> [Agency |-> AgencyServer,
                        Transitions |-> <<StateTransition(MessageTypeRollForward, stateIdle),
                                          StateTransition(MessageTypeRollBackward, stateIdle)>>])
 @@ (stateDone :> [Agency |-> AgencyNone, Transitions |-> <<>>])

\* StateMap with a transition left out: Intersect lacks IntersectNotFound
StateMap_NoIntersectNotFound ==
    [StateMap_AwaitReplyToIdle EXCEPT
        ![stateCanAwait].Transitions[1].NewState = stateMustReply,
        ![stateIntersect].Transitions =
            <<StateTransition(MessageTypeIntersectFound, stateIdle)>>]

\* StateMap with a wrong agency: MustReply is given to the client
StateMap_MustReplyClient ==
    [StateMap_AwaitReplyToIdle EXCEPT
        ![stateCanAwait].Transitions[1].NewState = stateMustReply,
        ![stateMustReply].Agency = AgencyClient]

\* StateMap with a wrong target: RequestNext stays in Idle
StateMap_RequestNextToIdle ==
    [StateMap_AwaitReplyToIdle EXCEPT
        ![stateCanAwait].Transitions[1].NewState = stateMustReply,
        ![stateIdle].Transitions[1].NewState = stateIdle]

\* StateMap where MustReply allows a further AwaitReply
StateMap_AwaitReplyInMustReply ==
    [StateMap_AwaitReplyToIdle EXCEPT
        ![stateCanAwait].Transitions[1].NewState = stateMustReply,
        ![stateMustReply].Transitions =
            <<StateTransition(MessageTypeAwaitReply, stateMustReply),
              StateTransition(MessageTypeRollForward, stateIdle),
              StateTransition(MessageTypeRollBackward, stateIdle)>>]

\* StateMap where Done can be left: the client may request again
StateMap_DoneRestarts ==
    [StateMap_AwaitReplyToIdle EXCEPT
        ![stateCanAwait].Transitions[1].NewState = stateMustReply,
        ![stateDone] = [Agency |-> AgencyClient,
                        Transitions |-> <<StateTransition(MessageTypeRequestNext, stateCanAwait)>>]]

\* StateMap where an intersect that is not found ends the protocol
StateMap_IntersectNotFoundToDone ==
    [StateMap_AwaitReplyToIdle EXCEPT
        ![stateCanAwait].Transitions[1].NewState = stateMustReply,
        ![stateIntersect].Transitions[2].NewState = stateDone]

(* ChainSync protocol state machine *)
StateMap ==
    (stateIdle :> [Agency |-> AgencyClient,
                   Transitions |-> <<StateTransition(MessageTypeRequestNext, stateCanAwait),
                                     StateTransition(MessageTypeFindIntersect, stateIntersect),
                                     StateTransition(MessageTypeDone, stateDone)>>])
 @@ (stateCanAwait :> [Agency |-> AgencyServer,
                       Transitions |-> <<StateTransition(MessageTypeAwaitReply, stateMustReply),
                                         StateTransition(MessageTypeRollForward, stateIdle),
                                         StateTransition(MessageTypeRollBackward, stateIdle)>>])
 @@ (stateIntersect :> [Agency |-> AgencyServer,
                        Transitions |-> <<StateTransition(MessageTypeIntersectFound, stateIdle),
                                          StateTransition(MessageTypeIntersectNotFound, stateIdle)>>])
 @@ (stateMustReply :> [Agency |-> AgencyServer,
                        Transitions |-> <<StateTransition(MessageTypeRollForward, stateIdle),
                                          StateTransition(MessageTypeRollBackward, stateIdle)>>])
 @@ (stateDone :> [Agency |-> AgencyNone, Transitions |-> <<>>])

-----------------------------------------------------------------------------
(* chainsync.Config and its options *)

WithPipelineLimit(limit) == [opt |-> "PipelineLimit", val |-> limit]
WithIntersectTimeout(timeout) == [opt |-> "IntersectTimeout", val |-> timeout]
WithBlockTimeout(timeout) == [opt |-> "BlockTimeout", val |-> timeout]
WithRollBackwardFunc(rollBackwardFunc) == [opt |-> "RollBackwardFunc", val |-> rollBackwardFunc]
WithRollForwardFunc(rollForwardFunc) == [opt |-> "RollForwardFunc", val |-> rollForwardFunc]

ApplyOption(c, o) ==
    CASE o.opt = "PipelineLimit" -> [c EXCEPT !.PipelineLimit = o.val]
      [] o.opt = "IntersectTimeout" -> [c EXCEPT !.IntersectTimeout = o.val]
      [] o.opt = "BlockTimeout" -> [c EXCEPT !.BlockTimeout = o.val]
      [] o.opt = "RollBackwardFunc" -> [c EXCEPT !.RollBackwardFunc = o.val]
      [] o.opt = "RollForwardFunc" -> [c EXCEPT !.RollForwardFunc = o.val]

\* the loop of NewConfig run from the last option to the first
RECURSIVE ApplyOptions_FirstWins(_, _)
ApplyOptions_FirstWins(c, opts) ==
    IF opts = <<>> THEN c
    ELSE ApplyOption(ApplyOptions_FirstWins(c, Tail(opts)), Head(opts))

RECURSIVE ApplyOptions(_, _)
ApplyOptions(c, opts) ==
    IF opts = <<>> THEN c
    ELSE ApplyOptions(ApplyOption(c, Head(opts)), Tail(opts))

(* durations in seconds *)
NewConfig(opts) ==
    ApplyOptions([PipelineLimit |-> 0,
                  IntersectTimeout |-> 5,
                  BlockTimeout |-> 180,
                  RollBackwardFunc |-> "nil",
                  RollForwardFunc |-> "nil"],
                 opts)

PipelineLimits == 0 .. MaxPipelineLimit

\* the option lists a ChainSync client is configured with: both callbacks,
\* and the pipeline limit either left at its default or set
CallbackOptions ==
    <<WithRollForwardFunc("rollForward"), WithRollBackwardFunc("rollBackward")>>

ConfigOptions ==
    {CallbackOptions}
        \cup {CallbackOptions \o <<WithPipelineLimit(l)>> : l \in PipelineLimits}

\* the options NewConfig can be given, two or more values for every field
AllOptions ==
    {WithPipelineLimit(l) : l \in PipelineLimits}
        \cup {WithIntersectTimeout(t) : t \in {1, 10}}
        \cup {WithBlockTimeout(t) : t \in {60, 300}}
        \cup {WithRollBackwardFunc(f) : f \in {"rollBackward", "rollBackward2"}}
        \cup {WithRollForwardFunc(f) : f \in {"rollForward", "rollForward2"}}

-----------------------------------------------------------------------------
(* Mini-protocol runtime: state-machine lookups *)

TransitionsOf(sm, s) ==
    {sm[s].Transitions[i] : i \in DOMAIN sm[s].Transitions}

ValidMsgTypes(sm, s) == {t.MsgType : t \in TransitionsOf(sm, s)}

\* the first transition of the state that matches the message type
getNewState(sm, s, m) ==
    LET idx == {i \in DOMAIN sm[s].Transitions : sm[s].Transitions[i].MsgType = m}
        first == CHOOSE i \in idx : \A j \in idx : i <= j
    IN sm[s].Transitions[first].NewState

\* SendMessage is permitted when the local role holds agency in the
\* current state and the message type is a valid transition from it
SendPermitted(sm, s, m) ==
    /\ sm[s].Agency = AgencyClient
    /\ m \in ValidMsgTypes(sm, s)

\* the receive pump accepts a message the remote role may send in the state
RecvPermitted(sm, s, m) ==
    /\ sm[s].Agency = AgencyServer
    /\ m \in ValidMsgTypes(sm, s)

SendError(sm, s, m) ==
    IF sm[s].Agency # AgencyClient THEN "AgencyViolation" ELSE "InvalidTransition"

\* pipelining: the client may hold up to PipelineLimit RequestNext in
\* flight; while replies are outstanding and the in-flight count is below
\* the limit, the caller may issue one more RequestNext, which waits in the
\* send queue of the protocol instance until the state machine is in Idle
HoldPermitted(c, n, m) ==
    /\ m = MessageTypeRequestNext
    /\ n >= 1
    /\ n < c.PipelineLimit

-----------------------------------------------------------------------------
(* ChainSync client and server over the runtime *)

\* the pipelined-ordering scenario: three RequestNext back-to-back, then the
\* replies RollForward, AwaitReply, RollBackward, RollForward
PipelinedOrdering ==
    <<MessageTypeRequestNext, MessageTypeRequestNext, MessageTypeRequestNext,
      MessageTypeRollForward, MessageTypeAwaitReply, MessageTypeRollBackward,
      MessageTypeRollForward>>

NoScenario == [on |-> FALSE, counts |-> <<>>]

\* the observer of the scenario: while the RequestNext calls accepted and
\* the messages received by the client are a prefix of the scenario, it
\* records the in-flight count after each
Observe(sc, m, n) ==
    IF /\ sc.on
       /\ Len(sc.counts) < Len(PipelinedOrdering)
       /\ PipelinedOrdering[Len(sc.counts) + 1] = m
    THEN [on |-> TRUE, counts |-> Append(sc.counts, n)]
    ELSE NoScenario

NoSend == [msg |-> "none", ok |-> FALSE, from |-> stateIdle, held |-> FALSE,
           err |-> "none", n |-> 0, after |-> "none"]

NoRecv == [msg |-> "none", ok |-> FALSE, from |-> stateIdle]

InitCS ==
    /\ config \in {NewConfig(o) : o \in ConfigOptions}
    /\ state = stateIdle
    /\ inflight = 0
    /\ pending = 0
    /\ nextReq = 1
    /\ finds = 0
    /\ c2s = <<>>
    /\ s2c = <<>>
    /\ srvState = stateIdle
    /\ srvReq = 0
    /\ callbacks = <<>>
    /\ failed = FALSE
    /\ lastSend = NoSend
    /\ lastRecv = NoRecv
    /\ srvFaulty = FALSE
    /\ visited = {stateIdle}
    /\ scenario = [on |-> TRUE, counts |-> <<>>]

\* the caller asks the client to send a message of type m.  SendMessage
\* takes it when the client holds agency in the current state and the type
\* is a valid transition: the state changes and the message goes out.  A
\* RequestNext issued while replies are outstanding is held in the send
\* queue when the pipeline limit allows one more in flight; the in-flight
\* count goes up with the call.  Any other call fails and changes nothing.
ClientSend(m) ==
    /\ ~failed
    /\ m = MessageTypeRequestNext => nextReq <= MaxRequests
    /\ m = MessageTypeFindIntersect => finds < MaxFinds
    /\ LET bySM == SendPermitted(StateMap, state, m)
           hold == ~bySM /\ HoldPermitted(config, inflight, m)
           isReq == m = MessageTypeRequestNext
           n == IF isReq THEN inflight + 1 ELSE inflight
       IN IF bySM \/ hold
          THEN /\ state' = IF bySM THEN getNewState(StateMap, state, m) ELSE state
               /\ pending' = IF hold THEN pending + 1 ELSE pending
               /\ inflight' = n
               /\ nextReq' = IF isReq THEN nextReq + 1 ELSE nextReq
               /\ finds' = IF m = MessageTypeFindIntersect THEN finds + 1 ELSE finds
               /\ c2s' = IF bySM
                         THEN Append(c2s, [type |-> m, from |-> state,
                                           req |-> IF isReq THEN nextReq ELSE 0])
                         ELSE c2s
               /\ lastSend' = [msg |-> m, ok |-> TRUE, from |-> state, held |-> hold,
                               err |-> "nil", n |-> inflight, after |-> lastRecv.msg]
               /\ visited' = visited \cup {state'}
               /\ scenario' = Observe(scenario, m, n)
          ELSE /\ lastSend' = [msg |-> m, ok |-> FALSE, from |-> state, held |-> FALSE,
                               err |-> SendError(StateMap, state, m), n |-> inflight,
                               after |-> lastRecv.msg]
               /\ UNCHANGED <<state, pending, inflight, nextReq, finds, c2s, visited, scenario>>
    /\ lastRecv' = NoRecv
    /\ UNCHANGED <<config, s2c, srvState, srvReq, callbacks, failed, srvFaulty>>

\* the server takes the next message of the client when it is the client's turn
ServerRecv ==
    /\ ~srvFaulty
    /\ c2s # <<>>
    /\ SendPermitted(StateMap, srvState, Head(c2s).type)
    /\ srvState' = getNewState(StateMap, srvState, Head(c2s).type)
    /\ srvReq' = Head(c2s).req
    /\ c2s' = Tail(c2s)
    /\ lastSend' = NoSend
    /\ lastRecv' = NoRecv
    /\ UNCHANGED <<config, state, inflight, pending, nextReq, finds, s2c, callbacks,
                   failed, srvFaulty, visited, scenario>>

\* the server answers the request it holds with a message valid in its state
ServerReply(m) ==
    /\ ~srvFaulty
    /\ RecvPermitted(StateMap, srvState, m)
    /\ srvState' = getNewState(StateMap, srvState, m)
    /\ s2c' = Append(s2c, [type |-> m, from |-> srvState, req |-> srvReq])
    /\ lastSend' = NoSend
    /\ lastRecv' = NoRecv
    /\ UNCHANGED <<config, state, inflight, pending, nextReq, finds, c2s, srvReq,
                   callbacks, failed, srvFaulty, visited, scenario>>

\* a server that does not keep to the protocol sends a message its state
\* does not allow, and nothing after it; it does so where the client does
\* not have agency, so that the message cannot cross a request
ServerViolate(m) ==
    /\ ~srvFaulty
    /\ StateMap[srvState].Agency # AgencyClient
    /\ ~RecvPermitted(StateMap, srvState, m)
    /\ srvFaulty' = TRUE
    /\ s2c' = Append(s2c, [type |-> m, from |-> srvState, req |-> srvReq])
    /\ lastSend' = NoSend
    /\ lastRecv' = NoRecv
    /\ UNCHANGED <<config, state, inflight, pending, nextReq, finds, c2s, srvState,
                   srvReq, callbacks, failed, visited, scenario>>

\* the receive pump of the client: check the transition, change state, call
\* the handler.  When the reply brings the state machine back to Idle and a
\* RequestNext is held in the send queue, SendMessage takes the oldest one:
\* Idle -> CanAwait, and the message goes out.
ClientRecv ==
    /\ s2c # <<>>
    /\ ~failed
    /\ s2c' = Tail(s2c)
    /\ LET m == Head(s2c).type
           isRoll == m \in {MessageTypeRollForward, MessageTypeRollBackward}
           s1 == getNewState(StateMap, state, m)
           n == IF isRoll THEN inflight - 1 ELSE inflight
           flush == pending > 0 /\ SendPermitted(StateMap, s1, MessageTypeRequestNext)
       IN IF RecvPermitted(StateMap, state, m)
          THEN /\ state' = IF flush
                            THEN getNewState(StateMap, s1, MessageTypeRequestNext)
                            ELSE s1
               /\ pending' = IF flush THEN pending - 1 ELSE pending
               /\ c2s' = IF flush
                         THEN Append(c2s, [type |-> MessageTypeRequestNext, from |-> s1,
                                           req |-> nextReq - pending])
                         ELSE c2s
               /\ inflight' = n
               /\ callbacks' = IF isRoll
                                THEN Append(callbacks, [func |-> m, req |-> Head(s2c).req])
                                ELSE callbacks
               /\ visited' = visited \cup {s1, state'}
               /\ scenario' = Observe(scenario, m, n)
               /\ lastRecv' = [msg |-> m, ok |-> TRUE, from |-> state]
               /\ UNCHANGED failed
          ELSE /\ failed' = TRUE
               /\ lastRecv' = [msg |-> m, ok |-> FALSE, from |-> state]
               /\ UNCHANGED <<state, pending, inflight, c2s, callbacks, visited, scenario>>
    /\ lastSend' = NoSend
    /\ UNCHANGED <<config, nextReq, finds, srvState, srvReq, srvFaulty>>

-----
(* Handshake: values of the codec, messages, configuration *)

ProtocolModeNodeToNode == "NodeToNode"
ProtocolModeNodeToClient == "NodeToClient"

DiffusionModeInitiatorOnly == FALSE
DiffusionModeInitiatorAndResponder == TRUE

MessageTypeProposeVersions == "ProposeVersions"
MessageTypeAcceptVersion == "AcceptVersion"
MessageTypeRefuse == "Refuse"

RefuseReasonVersionMismatch == 0
RefuseReasonDecodeError == 1
RefuseReasonRefused == 2

statePropose == "Propose"
stateConfirm == "Confirm"
stateHandshakeDone == "Done"

\* Handshake protocol state machine
\* (Timeout 0: the state declares no timeout)
HandshakeStateMap ==
    (statePropose :> [Agency |-> AgencyClient,
                      Transitions |-> <<StateTransition(MessageTypeProposeVersions, stateConfirm)>>,
                      Timeout |-> 0])
 @@ (stateConfirm :> [Agency |-> AgencyServer,
                      Transitions |-> <<StateTransition(MessageTypeAcceptVersion, stateHandshakeDone),
                                        StateTransition(MessageTypeRefuse, stateHandshakeDone)>>,
                      Timeout |-> 0])
 @@ (stateHandshakeDone :> [Agency |-> AgencyNone, Transitions |-> <<>>, Timeout |-> 0])

\* a dynamically typed value (interface{}) as the codec yields it: its
\* dynamic type and its content (a number, 0/1 for a bool, an identifier
\* for a string or for a list)
UintValue(n) == [t |-> "uint", n |-> n]
BoolValue(b) == [t |-> "bool", n |-> IF b THEN 1 ELSE 0]
StringValue(id) == [t |-> "string", n |-> id]
ListValue(id) == [t |-> "list", n |-> id]

\* version data: a plain value, or a list of values
PlainData(v) == [isList |-> FALSE, elems |-> <<v>>]
ListData(elems) == [isList |-> TRUE, elems |-> elems]

NewMsgProposeVersions(versionMap) ==
    [type |-> MessageTypeProposeVersions, VersionMap |-> versionMap]

MsgAcceptVersion(version, versionData) ==
    [type |-> MessageTypeAcceptVersion, Version |-> version, VersionData |-> versionData]

MsgRefuse(reason) == [type |-> MessageTypeRefuse, Reason |-> reason]

\* what a handler returns: nil, an error, or no return at all (a run-time panic)
Nil == [kind |-> "nil", text |-> "", detail |-> 0]
Errorf(text, detail) == [kind |-> "error", text |-> text, detail |-> detail]
Panic == [kind |-> "panic", text |-> "", detail |-> 0]

\* the inputs: versions, network magics, configurations
Versions == {7, 8}
NetworkMagics == {2, 764824073}

RECURSIVE SeqsUpTo(_, _)
SeqsUpTo(S, n) ==
    IF n = 0 THEN {<<>>}
    ELSE LET shorter == SeqsUpTo(S, n - 1)
         IN shorter \cup {Append(q, x) : q \in shorter, x \in S}

\* FinishedFunc is nil, or a callback that returns nil, or one that returns an error
FinishedFuncs == {"nil", "returnsNil", "returnsError"}

\* timeouts, in seconds
Timeouts == {0, 5, 10, 30}

HandshakeConfigs ==
    [ProtocolVersions : SeqsUpTo(Versions, MaxVersions),
     NetworkMagic : NetworkMagics,
     ClientFullDuplex : BOOLEAN,
     FinishedFunc : FinishedFuncs,
     Timeout : {5}]

\* a nil *Config
NilConfig == [nil |-> TRUE]

\* the Config of handshake.NewConfig(): nothing set but the default timeout
HandshakeNewConfig ==
    [ProtocolVersions |-> <<>>, NetworkMagic |-> 0, ClientFullDuplex |-> FALSE,
     FinishedFunc |-> "nil", Timeout |-> 5]

\* the configurations NewClient is called with
ClientConfigs ==
    {NilConfig} \cup
    {[ProtocolVersions |-> <<7>>, NetworkMagic |-> 2, ClientFullDuplex |-> FALSE,
      FinishedFunc |-> "returnsNil", Timeout |-> t] : t \in Timeouts}

\* the version data a peer can put in AcceptVersion, well formed or not
VersionDatas ==
    {PlainData(UintValue(2)),
     ListData(<<UintValue(2), BoolValue(FALSE)>>),
     ListData(<<UintValue(2), BoolValue(TRUE)>>),
     ListData(<<UintValue(764824073), BoolValue(TRUE)>>),
     ListData(<<UintValue(2)>>),
     ListData(<<UintValue(2), UintValue(1)>>)}

\* the reasons a peer can put in Refuse, well formed or not
RefuseReasons ==
    {<<UintValue(RefuseReasonVersionMismatch), ListValue(1)>>,
     <<UintValue(RefuseReasonVersionMismatch), ListValue(2)>>,
     <<UintValue(RefuseReasonDecodeError), UintValue(7), StringValue(1)>>,
     <<UintValue(RefuseReasonRefused), UintValue(7), StringValue(2)>>,
     <<UintValue(3), UintValue(7), StringValue(1)>>,
     <<UintValue(RefuseReasonRefused), UintValue(7)>>,
     <<StringValue(1)>>}

ReceivedMessages ==
    {MsgAcceptVersion(v, d) : v \in Versions, d \in VersionDatas}
        \cup {MsgRefuse(r) : r \in RefuseReasons}
        \cup {NewMsgProposeVersions(<<>>)}

-----------------------------------------------------------------------------
(* Handshake client *)

\* Start without the Once: the function runs on every call
onceStartDo_EveryCall(once) == TRUE

\* sync.Once: Do runs the function on the first call only
onceStartDo(once) == once = "new"

\* Start that never looks at ClientFullDuplex
diffusionModeOf_InitiatorOnly(c) == DiffusionModeInitiatorOnly

\* the diffusion mode Start proposes
diffusionModeOf(c) ==
    IF c.ClientFullDuplex
    THEN DiffusionModeInitiatorAndResponder
    ELSE DiffusionModeInitiatorOnly

\* the entry Start makes in the version map for one version
versionMapEntry(c, mode) ==
    IF mode = ProtocolModeNodeToNode
    THEN ListData(<<UintValue(c.NetworkMagic), BoolValue(diffusionModeOf(c))>>)
    ELSE PlainData(UintValue(c.NetworkMagic))

\* the loop of Start over c.config.ProtocolVersions, from entry i on
RECURSIVE buildVersionMap(_, _, _, _)
buildVersionMap(c, mode, i, versionMap) ==
    IF i > Len(c.ProtocolVersions) THEN versionMap
    ELSE LET version == c.ProtocolVersions[i]
         IN buildVersionMap(c, mode, i + 1,
                [v \in DOMAIN versionMap \cup {version} |->
                    IF v = version THEN versionMapEntry(c, mode) ELSE versionMap[v]])

EmptyVersionMap == [v \in {} |-> PlainData(UintValue(0))]

\* FinishedFunc(version, fullDuplex): the call made and what it returns
callFinishedFunc(c, version, fullDuplex) ==
    [ret |-> IF c.FinishedFunc = "returnsNil" THEN Nil ELSE Errorf("callback", 0),
     calls |-> <<[version |-> version, fullDuplex |-> fullDuplex]>>]

NoCalls(ret) == [ret |-> ret, calls |-> <<>>]

\* handleAcceptVersion with the comparison the wrong way round: full duplex
\* is reported when the peer answered InitiatorOnly
handleAcceptVersion_Inverted(c, mode, msg) ==
    IF c.FinishedFunc = "nil"
    THEN NoCalls(Errorf("received handshake AcceptVersion message but no callback function is defined", 0))
    ELSE IF mode = ProtocolModeNodeToNode
         THEN LET versionData == msg.VersionData
              IN IF ~versionData.isList THEN NoCalls(Panic)
                 ELSE IF Len(versionData.elems) < 2 THEN NoCalls(Panic)
                 ELSE IF versionData.elems[2].t # "bool" THEN NoCalls(Panic)
                 ELSE callFinishedFunc(c, msg.Version,
                        versionData.elems[2] = BoolValue(DiffusionModeInitiatorOnly))
         ELSE callFinishedFunc(c, msg.Version, FALSE)

\* handleAcceptVersion that looks for the callback only after it has taken
\* the version data apart
handleAcceptVersion_CallbackCheckedLast(c, mode, msg) ==
    IF mode = ProtocolModeNodeToNode /\ ~msg.VersionData.isList THEN NoCalls(Panic)
    ELSE IF mode = ProtocolModeNodeToNode /\ Len(msg.VersionData.elems) < 2 THEN NoCalls(Panic)
    ELSE IF mode = ProtocolModeNodeToNode /\ msg.VersionData.elems[2].t # "bool" THEN NoCalls(Panic)
    ELSE IF c.FinishedFunc = "nil"
    THEN NoCalls(Errorf("received handshake AcceptVersion message but no callback function is defined", 0))
    ELSE callFinishedFunc(c, msg.Version,
            /\ mode = ProtocolModeNodeToNode
            /\ msg.VersionData.elems[2] = BoolValue(DiffusionModeInitiatorAndResponder))

handleAcceptVersion(c, mode, msg) ==
    IF c.FinishedFunc = "nil"
    THEN NoCalls(Errorf("received handshake AcceptVersion message but no callback function is defined", 0))
    ELSE IF mode = ProtocolModeNodeToNode
         THEN LET versionData == msg.VersionData
              IN IF ~versionData.isList THEN NoCalls(Panic)
                 ELSE IF Len(versionData.elems) < 2 THEN NoCalls(Panic)
                 ELSE IF versionData.elems[2].t # "bool" THEN NoCalls(Panic)
                 ELSE callFinishedFunc(c, msg.Version,
                        versionData.elems[2] = BoolValue(DiffusionModeInitiatorAndResponder))
         ELSE callFinishedFunc(c, msg.Version, FALSE)

handleRefuse(msg) ==
    LET reason == msg.Reason
    IN IF Len(reason) < 1 THEN NoCalls(Panic)
       ELSE IF reason[1].t # "uint" THEN NoCalls(Panic)
       ELSE IF reason[1].n = RefuseReasonVersionMismatch
            THEN NoCalls(Errorf("version mismatch", 0))
       ELSE IF reason[1].n \in {RefuseReasonDecodeError, RefuseReasonRefused}
            THEN IF Len(reason) < 3 THEN NoCalls(Panic)
                 ELSE IF reason[3].t # "string" THEN NoCalls(Panic)
                 ELSE IF reason[1].n = RefuseReasonDecodeError
                      THEN NoCalls(Errorf("decode error", reason[3].n))
                      ELSE NoCalls(Errorf("refused", reason[3].n))
       ELSE NoCalls(Nil)

\* handleMessage whose switch has no default case
handleMessage_NoDefault(c, mode, msg) ==
    IF msg.type = MessageTypeAcceptVersion THEN handleAcceptVersion(c, mode, msg)
    ELSE IF msg.type = MessageTypeRefuse THEN handleRefuse(msg)
    ELSE NoCalls(Nil)

handleMessage(c, mode, msg) ==
    IF msg.type = MessageTypeAcceptVersion THEN handleAcceptVersion(c, mode, msg)
    ELSE IF msg.type = MessageTypeRefuse THEN handleRefuse(msg)
    ELSE NoCalls(Errorf("received unexpected message type", 0))

\* StateMap.Copy(): a new map in memory with the entries of the map at ref
StateMapCopy(heap, ref) == [heap |-> Append(heap, heap[ref]), ref |-> Len(heap) + 1]

\* NewClient that sets the timeout in StateMap itself, not in a copy
NewClient_NoCopy(heap, cfg) ==
    LET cConfig == IF DOMAIN cfg = DOMAIN NilConfig THEN HandshakeNewConfig ELSE cfg
        stateMap == 1
        updated == IF stateConfirm \in DOMAIN heap[stateMap]
                   THEN [heap EXCEPT ![stateMap][stateConfirm].Timeout = cConfig.Timeout]
                   ELSE heap
    IN [heap |-> updated,
        client |-> [config |-> cConfig, StateMap |-> stateMap, InitialState |-> statePropose]]

\* NewClient that sets the timeout on the state the client starts in
NewClient_TimeoutOnPropose(heap, cfg) ==
    LET cConfig == IF DOMAIN cfg = DOMAIN NilConfig THEN HandshakeNewConfig ELSE cfg
        copied == StateMapCopy(heap, 1)
        stateMap == copied.ref
        updated == IF statePropose \in DOMAIN copied.heap[stateMap]
                   THEN [copied.heap EXCEPT ![stateMap][statePropose].Timeout = cConfig.Timeout]
                   ELSE copied.heap
    IN [heap |-> updated,
        client |-> [config |-> cConfig, StateMap |-> stateMap, InitialState |-> statePropose]]

\* NewClient that leaves the copied state map as it is
NewClient_NoTimeout(heap, cfg) ==
    LET cConfig == IF DOMAIN cfg = DOMAIN NilConfig THEN HandshakeNewConfig ELSE cfg
        copied == StateMapCopy(heap, 1)
    IN [heap |-> copied.heap,
        client |-> [config |-> cConfig, StateMap |-> copied.ref, InitialState |-> statePropose]]

\* NewClient, given the state maps in memory (StateMap is the first): the
\* memory afterwards and the client's config, state map and initial state
NewClient(heap, cfg) ==
    LET cConfig == IF DOMAIN cfg = DOMAIN NilConfig THEN HandshakeNewConfig ELSE cfg
        copied == StateMapCopy(heap, 1)
        stateMap == copied.ref
        updated == IF stateConfirm \in DOMAIN copied.heap[stateMap]
                   THEN [copied.heap EXCEPT ![stateMap][stateConfirm].Timeout = cConfig.Timeout]
                   ELSE copied.heap
    IN [heap |-> updated,
        client |-> [config |-> cConfig, StateMap |-> stateMap, InitialState |-> statePropose]]

Callers == 1 .. MaxCallers

NoError == [kind |-> "", state |-> "", after |-> 0]

NotHandled == [msg |-> NewMsgProposeVersions(EmptyVersionMap), delivered |-> FALSE,
               ret |-> Nil, any |-> FALSE]

\* the handshake client as NewClient leaves it
HandshakeNew ==
    /\ onceStart = "new"
    /\ pc = [t \in Callers |-> "idle"]
    /\ started = 0
    /\ sent = <<>>
    /\ LET new == NewClient(<<HandshakeStateMap>>, hsConfig)
       IN /\ hsStateMap = new.heap[new.client.StateMap]
          /\ hsState = new.client.InitialState
    /\ finished = <<>>
    /\ handled = NotHandled
    /\ hsError = NoError
    /\ dropped = <<>>

InitHS ==
    /\ hsMode \in {ProtocolModeNodeToNode, ProtocolModeNodeToClient}
    /\ hsConfig \in HandshakeConfigs
    /\ HandshakeNew

\* a caller calls Start: the first runs the function, one that arrives while
\* it runs waits for it, a later one returns at once
StartCall(t) ==
    /\ pc[t] = "idle"
    /\ IF onceStartDo(onceStart)
       THEN /\ onceStart' = "running"
            /\ pc' = [pc EXCEPT ![t] = "protocolStart"]
       ELSE IF onceStart = "running"
            THEN /\ pc' = [pc EXCEPT ![t] = "blocked"]
                 /\ UNCHANGED onceStart
            ELSE /\ pc' = [pc EXCEPT ![t] = "returned"]
                 /\ UNCHANGED onceStart
    /\ UNCHANGED <<hsMode, hsConfig, started, sent, hsState, finished, handled,
                   hsStateMap, hsError, dropped>>

\* c.Protocol.Start()
StartProtocol(t) ==
    /\ pc[t] = "protocolStart"
    /\ started' = started + 1
    /\ pc' = [pc EXCEPT ![t] = "send"]
    /\ UNCHANGED <<hsMode, hsConfig, onceStart, sent, hsState, finished, handled,
                   hsStateMap, hsError, dropped>>

\* build the version map and hand ProposeVersions to SendMessage, whose
\* error is dropped
StartSend(t) ==
    /\ pc[t] = "send"
    /\ sent' = Append(sent,
                 NewMsgProposeVersions(buildVersionMap(hsConfig, hsMode, 1, EmptyVersionMap)))
    /\ hsState' = IF SendPermitted(hsStateMap, hsState, MessageTypeProposeVersions)
                  THEN getNewState(hsStateMap, hsState, MessageTypeProposeVersions)
                  ELSE hsState
    /\ pc' = [pc EXCEPT ![t] = "return"]
    /\ UNCHANGED <<hsMode, hsConfig, onceStart, started, finished, handled,
                   hsStateMap, hsError, dropped>>

\* the function passed to Do returns
StartReturn(t) ==
    /\ pc[t] = "return"
    /\ onceStart' = "done"
    /\ pc' = [pc EXCEPT ![t] = "returned"]
    /\ UNCHANGED <<hsMode, hsConfig, started, sent, hsState, finished, handled,
                   hsStateMap, hsError, dropped>>

\* a caller that waited in Do returns once the function has
StartUnblock(t) ==
    /\ pc[t] = "blocked"
    /\ onceStart = "done"
    /\ pc' = [pc EXCEPT ![t] = "returned"]
    /\ UNCHANGED <<hsMode, hsConfig, onceStart, started, sent, hsState, finished, handled,
                   hsStateMap, hsError, dropped>>

\* the receive pump: a message that is a valid transition changes the state
\* and goes to handleMessage; any other fails the protocol
RecvMessage(msg) ==
    /\ started >= 1
    /\ ~handled.any
    /\ hsError = NoError
    /\ IF RecvPermitted(hsStateMap, hsState, msg.type)
       THEN LET out == handleMessage(hsConfig, hsMode, msg)
            IN /\ hsState' = getNewState(hsStateMap, hsState, msg.type)
               /\ finished' = finished \o out.calls
               /\ handled' = [msg |-> msg, delivered |-> TRUE, ret |-> out.ret, any |-> TRUE]
       ELSE /\ handled' = [msg |-> msg, delivered |-> FALSE,
                           ret |-> Errorf("ProtocolViolation", 0), any |-> TRUE]
            /\ UNCHANGED <<hsState, finished>>
    /\ UNCHANGED <<hsMode, hsConfig, onceStart, pc, started, sent,
                   hsStateMap, hsError, dropped>>

\* the messages handleMessage can be called with: those a peer can send and
\* one of a type the protocol does not have
HandlerMessages == ReceivedMessages \cup {[type |-> "Unknown"]}

\* handleMessage called with a message, whatever the state of the protocol
HandleMessageCall(msg) ==
    /\ ~handled.any
    /\ LET out == handleMessage(hsConfig, hsMode, msg)
       IN /\ finished' = finished \o out.calls
          /\ handled' = [msg |-> msg, delivered |-> TRUE, ret |-> out.ret, any |-> TRUE]
    /\ UNCHANGED <<hsMode, hsConfig, onceStart, pc, started, sent, hsState,
                   hsStateMap, hsError, dropped>>

\* the deadline of the current state fires: a state where the peer has
\* agency and that declares a timeout; the Protocol stops with StateTimeout
StateTimeout ==
    /\ started >= 1
    /\ ~handled.any
    /\ hsError = NoError
    /\ hsStateMap[hsState].Agency = AgencyServer
    /\ hsStateMap[hsState].Timeout > 0
    /\ hsError' = [kind |-> "StateTimeout", state |-> hsState,
                   after |-> hsStateMap[hsState].Timeout]
    /\ UNCHANGED <<hsMode, hsConfig, onceStart, pc, started, sent, hsState,
                   finished, handled, hsStateMap, dropped>>

\* a message arrives on the open connection after the Protocol has stopped:
\* no pump is left to take it to the handler
RecvStopped(msg) ==
    /\ hsError # NoError
    /\ Len(dropped) < MaxDropped
    /\ dropped' = Append(dropped, msg.type)
    /\ UNCHANGED <<hsMode, hsConfig, onceStart, pc, started, sent, hsState,
                   finished, handled, hsStateMap, hsError>>

-----------------------------------------------------------------------------
(* ouroboros package: network definitions and lookups *)

NetworkTestnet ==
    [Id |-> 0, Name |-> "testnet", NetworkMagic |-> 1097911063,
     PublicRootAddress |-> "", PublicRootPort |-> 0]
NetworkMainnet ==
    [Id |-> 1, Name |-> "mainnet", NetworkMagic |-> 764824073,
     PublicRootAddress |-> "relays-new.cardano-mainnet.iohk.io", PublicRootPort |-> 3001]
NetworkPreprod ==
    [Id |-> 2, Name |-> "preprod", NetworkMagic |-> 1,
     PublicRootAddress |-> "preprod-node.world.dev.cardano.org", PublicRootPort |-> 30000]
NetworkPreview ==
    [Id |-> 3, Name |-> "preview", NetworkMagic |-> 2,
     PublicRootAddress |-> "preview-node.world.dev.cardano.org", PublicRootPort |-> 30002]

NetworkInvalid ==
    [Id |-> 0, Name |-> "invalid", NetworkMagic |-> 0,
     PublicRootAddress |-> "", PublicRootPort |-> 0]

\* the list of networks without its last entry
networks_NoPreview == <<NetworkTestnet, NetworkMainnet, NetworkPreprod>>

networks == <<NetworkTestnet, NetworkMainnet, NetworkPreprod, NetworkPreview>>

\* the loops of the lookup functions, from entry i of networks on
RECURSIVE NetworkByNameFrom(_, _)
NetworkByNameFrom(name, i) ==
    IF i > Len(networks) THEN NetworkInvalid
    ELSE IF networks[i].Name = name THEN networks[i]
    ELSE NetworkByNameFrom(name, i + 1)

RECURSIVE NetworkByIdFrom(_, _)
NetworkByIdFrom(id, i) ==
    IF i > Len(networks) THEN NetworkInvalid
    ELSE IF networks[i].Id = id THEN networks[i]
    ELSE NetworkByIdFrom(id, i + 1)

RECURSIVE NetworkByNetworkMagicFrom(_, _)
NetworkByNetworkMagicFrom(networkMagic, i) ==
    IF i > Len(networks) THEN NetworkInvalid
    ELSE IF networks[i].NetworkMagic = networkMagic THEN networks[i]
    ELSE NetworkByNetworkMagicFrom(networkMagic, i + 1)

NetworkByName(name) == NetworkByNameFrom(name, 1)
NetworkById(id) == NetworkByIdFrom(id, 1)
NetworkByNetworkMagic(networkMagic) == NetworkByNetworkMagicFrom(networkMagic, 1)

\* the arguments the lookups are called with
LookupNames == {"testnet", "mainnet", "preprod", "preview", "invalid", "", "Mainnet"}
LookupIds == 0 .. MaxNetworkId
LookupMagics == {0, 1, 2, 3, 42, 764824073, 1097911063}

LookupByName(name) ==
    /\ Len(lookups) < MaxLookups
    /\ lookups' = Append(lookups, [by |-> "Name", name |-> name, num |-> 0,
                                   result |-> NetworkByName(name)])

LookupById(id) ==
    /\ Len(lookups) < MaxLookups
    /\ lookups' = Append(lookups, [by |-> "Id", name |-> "", num |-> id,
                                   result |-> NetworkById(id)])

LookupByNetworkMagic(networkMagic) ==
    /\ Len(lookups) < MaxLookups
    /\ lookups' = Append(lookups, [by |-> "NetworkMagic", name |-> "", num |-> networkMagic,
                                   result |-> NetworkByNetworkMagic(networkMagic)])

-----------------------------------------------------------------------------
(* ledger package: addresses *)

addressHashSize == 28

addressTypeKeyKey == 0
addressTypeScriptKey == 1
addressTypeKeyScript == 2
addressTypeScriptScript == 3
addressTypeKeyPointer == 4
addressTypeScriptPointer == 5
addressTypeKeyNone == 6
addressTypeScriptNone == 7
addressTypeByron == 8
addressTypeNoneKey == 14
addressTypeNoneScript == 15

\* Address{}: the zero value (a nil byte slice is the empty sequence)
ZeroAddress ==
    [addressType |-> 0, networkId |-> 0, paymentAddress |-> <<>>, stakingAddress |-> <<>>]

\* populateFromBytes: the Address afterwards, or a panic with the Address
\* as the lines before it left it. The data is a slice: spare are the bytes
\* of its backing array beyond its length. data[0] panics on no data;
\* payload[:addressHashSize] is checked against the capacity of the payload
\* and reads into the spare bytes; payload[addressHashSize:] is checked
\* against its length.
populateFromBytes(a, data, spare) ==
    IF Len(data) < 1 THEN [panic |-> TRUE, a |-> a]
    ELSE LET header == data[1]
             addressType == (header % 256) \div 16
             networkId == header % 16
             payload == SubSeq(data, 2, Len(data))
             payloadCap == Len(payload) + Len(spare)
             paymentAddress == SubSeq(payload \o spare, 1, addressHashSize)
             stakingAddress == SubSeq(payload, addressHashSize + 1, Len(payload))
         IN IF payloadCap < addressHashSize
            THEN [panic |-> TRUE,
                  a |-> [a EXCEPT !.addressType = addressType, !.networkId = networkId]]
            ELSE IF Len(payload) < addressHashSize
            THEN [panic |-> TRUE,
                  a |-> [a EXCEPT !.addressType = addressType, !.networkId = networkId,
                                  !.paymentAddress = paymentAddress]]
            ELSE [panic |-> FALSE,
                  a |-> IF addressType \in {addressTypeNoneKey, addressTypeNoneScript}
                        THEN [addressType |-> addressType,
                              networkId |-> networkId,
                              paymentAddress |-> <<>>,
                              stakingAddress |-> paymentAddress]
                        ELSE [addressType |-> addressType,
                              networkId |-> networkId,
                              paymentAddress |-> paymentAddress,
                              stakingAddress |-> stakingAddress]]

\* what StakeAddress returns: a nil pointer, or a new Address
NilAddress == [isNil |-> TRUE, a |-> ZeroAddress]
NewAddr(a) == [isNil |-> FALSE, a |-> a]

\* StakeAddress that does not look at the address type
StakeAddress_AnyType(a) ==
    NewAddr([addressType |-> addressTypeNoneKey,
             networkId |-> a.networkId,
             paymentAddress |-> <<>>,
             stakingAddress |-> a.stakingAddress])

\* StakeAddress that copies the payment part as well
StakeAddress_KeepsPayment(a) ==
    IF a.addressType # addressTypeKeyKey /\ a.addressType # addressTypeScriptKey
    THEN NilAddress
    ELSE NewAddr([addressType |-> addressTypeNoneKey,
                  networkId |-> a.networkId,
                  paymentAddress |-> a.paymentAddress,
                  stakingAddress |-> a.stakingAddress])

StakeAddress(a) ==
    IF a.addressType # addressTypeKeyKey /\ a.addressType # addressTypeScriptKey
    THEN NilAddress
    ELSE NewAddr([addressType |-> addressTypeNoneKey,
                  networkId |-> a.networkId,
                  paymentAddress |-> <<>>,
                  stakingAddress |-> a.stakingAddress])

\* Bytes: the header byte rebuilt from type and network id, then the
\* payment part, then the staking part
Bytes(a) ==
    <<((a.addressType * 16) % 256) + (a.networkId % 16)>>
        \o a.paymentAddress \o a.stakingAddress

\* n bytes counting up from a first byte
Ramp(n, first) == [i \in 1 .. n |-> (first + i - 1) % 256]

\* the header bytes: every type in the upper four bits, some network ids
\* in the lower four
AddressHeaders == {t * 16 + n : t \in 0 .. 15, n \in {0, 1, 15}}

\* the lengths of what follows the payment part: nothing, a few bytes (a
\* pointer), a hash
TailLengths == (0 .. MaxTail) \cup {addressHashSize}

\* n bytes of one value
Fill(n, b) == [i \in 1 .. n |-> b]

\* a slice: its bytes and the spare bytes of its backing array
Slice(data, spare) == [data |-> data, spare |-> spare]

\* the slices an Address is populated from: a header, a payment part and a
\* tail, with or without spare capacity; or less than that, with no spare
\* capacity, with too little, with just enough or with more
AddressDatas ==
    {Slice(<<h>> \o Ramp(addressHashSize, 17) \o Ramp(k, 129), <<>>) :
        h \in AddressHeaders, k \in TailLengths}
        \cup {Slice(<<h>> \o Ramp(addressHashSize, 17), Fill(3, 0)) : h \in {0, 225}}
        \cup {Slice(<<>>, Fill(n, 0)) : n \in {0, 8}}
        \cup UNION {{Slice(<<h>> \o Ramp(k, 17), Fill(n, b)) :
                        h \in {0, 97, 225}, n \in {0, 5, addressHashSize - k, 36},
                        b \in {0, 255}} :
                    k \in {0, 19, addressHashSize - 1}}

NotCalled == [called |-> FALSE, isNil |-> TRUE, a |-> ZeroAddress]

AddressAtRest ==
    /\ addrData = <<>>
    /\ addrSpare = <<>>
    /\ addrStatus = "new"
    /\ addr = ZeroAddress
    /\ stakeAddr = NotCalled
    /\ addrBytes = [called |-> FALSE, bytes |-> <<>>]

\* NewAddress and UnmarshalCBOR once the bytes are decoded: a zero Address
\* is populated from them
PopulateFromBytes(slice) ==
    /\ addrStatus = "new"
    /\ addrData' = slice.data
    /\ addrSpare' = slice.spare
    /\ LET out == populateFromBytes(addr, slice.data, slice.spare)
       IN /\ addr' = out.a
          /\ addrStatus' = IF out.panic THEN "panicked" ELSE "populated"
    /\ UNCHANGED <<stakeAddr, addrBytes>>

\* a.StakeAddress(): the receiver is passed by value
StakeAddressCall ==
    /\ addrStatus = "populated"
    /\ ~stakeAddr.called
    /\ LET ret == StakeAddress(addr)
       IN stakeAddr' = [called |-> TRUE, isNil |-> ret.isNil, a |-> ret.a]
    /\ UNCHANGED <<addrData, addrSpare, addrStatus, addr, addrBytes>>

\* a.Bytes()
BytesCall ==
    /\ addrStatus = "populated"
    /\ ~addrBytes.called
    /\ addrBytes' = [called |-> TRUE, bytes |-> Bytes(addr)]
    /\ UNCHANGED <<addrData, addrSpare, addrStatus, addr, stakeAddr>>

-----------------------------------------------------------------------------
(* Construction of ChainSync configurations *)

\* a call of NewConfig with one option more than the call before
NewConfigCall(o) ==
    /\ Len(options) < MaxOptions
    /\ options' = Append(options, o)
    /\ config' = NewConfig(options')
    /\ UNCHANGED <<state, inflight, pending, nextReq, finds, c2s, s2c, srvState,
                   srvReq, callbacks, failed, lastSend, lastRecv, srvFaulty,
                   visited, scenario>>

-----------------------------------------------------------------------------
(* Construction of handshake clients *)

NewClientCall(cfg) ==
    /\ Len(clients) < MaxClients
    /\ LET new == NewClient(stateMaps, cfg)
       IN /\ stateMaps' = new.heap
          /\ clients' = Append(clients, new.client)

-----------------------------------------------------------------------------
(* The specifications: one per protocol, the other protocol at rest *)

HandshakeAtRest ==
    /\ hsMode = ProtocolModeNodeToNode
    /\ hsConfig = [ProtocolVersions |-> <<>>, NetworkMagic |-> 2,
                   ClientFullDuplex |-> FALSE, FinishedFunc |-> "nil", Timeout |-> 5]
    /\ HandshakeNew

NewClientAtRest ==
    /\ stateMaps = <<HandshakeStateMap>>
    /\ clients = <<>>

ChainSyncAtRest ==
    /\ config = NewConfig(<<>>)
    /\ state = stateIdle
    /\ inflight = 0
    /\ pending = 0
    /\ nextReq = 1
    /\ finds = 0
    /\ c2s = <<>>
    /\ s2c = <<>>
    /\ srvState = stateIdle
    /\ srvReq = 0
    /\ callbacks = <<>>
    /\ failed = FALSE
    /\ lastSend = NoSend
    /\ lastRecv = NoRecv
    /\ srvFaulty = FALSE
    /\ visited = {stateIdle}
    /\ scenario = NoScenario

\* the variables of the other parts of the program, at rest
OthersAtRest == options = <<>> /\ lookups = <<>> /\ AddressAtRest

Init == InitCS /\ HandshakeAtRest /\ NewClientAtRest /\ OthersAtRest

Next ==
    \/ \E m \in ClientMsgTypes : ClientSend(m) /\ UNCHANGED <<hsVars, ncVars, options, lookups, adVars>>
    \/ ServerRecv /\ UNCHANGED <<hsVars, ncVars, options, lookups, adVars>>
    \/ \E m \in ServerMsgTypes : ServerReply(m) /\ UNCHANGED <<hsVars, ncVars, options, lookups, adVars>>
    \/ \E m \in ServerMsgTypes : ServerViolate(m) /\ UNCHANGED <<hsVars, ncVars, options, lookups, adVars>>
    \/ ClientRecv /\ UNCHANGED <<hsVars, ncVars, options, lookups, adVars>>

Spec == Init /\ [][Next]_vars

InitHandshake == InitHS /\ ChainSyncAtRest /\ NewClientAtRest /\ OthersAtRest

NextHandshake ==
    \/ \E t \in Callers : StartCall(t) /\ UNCHANGED <<csVars, ncVars, options, lookups, adVars>>
    \/ \E t \in Callers : StartProtocol(t) /\ UNCHANGED <<csVars, ncVars, options, lookups, adVars>>
    \/ \E t \in Callers : StartSend(t) /\ UNCHANGED <<csVars, ncVars, options, lookups, adVars>>
    \/ \E t \in Callers : StartReturn(t) /\ UNCHANGED <<csVars, ncVars, options, lookups, adVars>>
    \/ \E t \in Callers : StartUnblock(t) /\ UNCHANGED <<csVars, ncVars, options, lookups, adVars>>
    \/ \E msg \in ReceivedMessages : RecvMessage(msg) /\ UNCHANGED <<csVars, ncVars, options, lookups, adVars>>
    \/ StateTimeout /\ UNCHANGED <<csVars, ncVars, options, lookups, adVars>>
    \/ \E msg \in ReceivedMessages : RecvStopped(msg) /\ UNCHANGED <<csVars, ncVars, options, lookups, adVars>>

SpecHandshake == InitHandshake /\ [][NextHandshake]_vars

NextHandler ==
    \E msg \in HandlerMessages :
        HandleMessageCall(msg) /\ UNCHANGED <<csVars, ncVars, options, lookups, adVars>>

SpecHandler == InitHandshake /\ [][NextHandler]_vars

InitNewClient ==
    NewClientAtRest /\ ChainSyncAtRest /\ HandshakeAtRest /\ OthersAtRest

NextNewClient ==
    \E cfg \in ClientConfigs :
        NewClientCall(cfg) /\ UNCHANGED <<csVars, hsVars, options, lookups, adVars>>

SpecNewClient == InitNewClient /\ [][NextNewClient]_vars

InitConfig ==
    /\ OthersAtRest
    /\ ChainSyncAtRest
    /\ HandshakeAtRest
    /\ NewClientAtRest

NextConfig ==
    \E o \in AllOptions : NewConfigCall(o) /\ UNCHANGED <<hsVars, ncVars, lookups, adVars>>

SpecConfig == InitConfig /\ [][NextConfig]_vars

InitNetworks ==
    /\ OthersAtRest
    /\ ChainSyncAtRest
    /\ HandshakeAtRest
    /\ NewClientAtRest

NextNetworks ==
    \/ \E name \in LookupNames :
          LookupByName(name) /\ UNCHANGED <<csVars, hsVars, ncVars, options, adVars>>
    \/ \E id \in LookupIds :
          LookupById(id) /\ UNCHANGED <<csVars, hsVars, ncVars, options, adVars>>
    \/ \E networkMagic \in LookupMagics :
          LookupByNetworkMagic(networkMagic) /\ UNCHANGED <<csVars, hsVars, ncVars, options, adVars>>

SpecNetworks == InitNetworks /\ [][NextNetworks]_vars

InitAddress ==
    /\ OthersAtRest
    /\ ChainSyncAtRest
    /\ HandshakeAtRest
    /\ NewClientAtRest

NextAddress ==
    \/ \E slice \in AddressDatas :
          PopulateFromBytes(slice) /\ UNCHANGED <<csVars, hsVars, ncVars, options, lookups>>
    \/ StakeAddressCall /\ UNCHANGED <<csVars, hsVars, ncVars, options, lookups>>
    \/ BytesCall /\ UNCHANGED <<csVars, hsVars, ncVars, options, lookups>>

SpecAddress == InitAddress /\ [][NextAddress]_vars

-----------------------------------------------------------------------------
(* The ChainSync state machine as the specification tabulates it *)

SpecTable ==
    ("Idle" :> [Agency |-> "Client",
                Transitions |-> {<<"RequestNext", "CanAwait">>,
                                 <<"FindIntersect", "Intersect">>,
                                 <<"Done", "Done">>}])
 @@ ("CanAwait" :> [Agency |-> "Server",
                    Transitions |-> {<<"AwaitReply", "MustReply">>,
                                     <<"RollForward", "Idle">>,
                                     <<"RollBackward", "Idle">>}])
 @@ ("MustReply" :> [Agency |-> "Server",
                     Transitions |-> {<<"RollForward", "Idle">>,
                                      <<"RollBackward", "Idle">>}])
 @@ ("Intersect" :> [Agency |-> "Server",
                     Transitions |-> {<<"IntersectFound", "Idle">>,
                                      <<"IntersectNotFound", "Idle">>}])
 @@ ("Done" :> [Agency |-> "None", Transitions |-> {}])

\* the states either side of the run has been in
ReachedStates == visited \cup {state, srvState}

\* C1: the StateMap of the code is the state machine of the table: the same
\* states, and in every state the run reaches the same agency and the same
\* transitions, none missing, none extra and none listed twice, so each
\* step of one machine is a step of the other.
C1_StateMapIsSpecTable ==
    /\ DOMAIN StateMap = DOMAIN SpecTable
    /\ \A s \in ReachedStates :
          /\ s \in DOMAIN SpecTable
          /\ StateMap[s].Agency = SpecTable[s].Agency
          /\ {<<t.MsgType, t.NewState>> : t \in TransitionsOf(StateMap, s)}
                = SpecTable[s].Transitions
          /\ Len(StateMap[s].Transitions) = Cardinality(SpecTable[s].Transitions)

\* a run that has been through every state of the map and ended in Done
C1_Witness ==
    /\ visited = DOMAIN StateMap
    /\ state = stateDone
    /\ srvState = stateDone

\* either side may transmit when the state it is in gives it agency
ClientMayTransmit == StateMap[state].Agency = AgencyClient

ServerMayTransmit == StateMap[srvState].Agency = AgencyServer

\* C2: in every state the run reaches, a state of Client agency lists only
\* client-originated message types and a state of Server agency lists only
\* server-originated ones; and at no point of the run may both sides
\* transmit: the client and the server never hold agency together, every
\* message the client has put on the wire (a held RequestNext included) left
\* from a state of Client agency that lists it, every message a conforming
\* server has put on the wire left from a state of Server agency that lists
\* it, and messages of the two sides are never on the wire together.
C2_AgencyExclusive ==
    /\ \A s \in ReachedStates :
          /\ StateMap[s].Agency = AgencyClient
                => ValidMsgTypes(StateMap, s) \subseteq {"RequestNext", "FindIntersect", "Done"}
          /\ StateMap[s].Agency = AgencyServer
                => ValidMsgTypes(StateMap, s) \subseteq
                      {"AwaitReply", "RollForward", "RollBackward",
                       "IntersectFound", "IntersectNotFound"}
          /\ ~ /\ \E m \in ClientMsgTypes : m \in ValidMsgTypes(StateMap, s)
               /\ \E m \in ServerMsgTypes : m \in ValidMsgTypes(StateMap, s)
    /\ ~(ClientMayTransmit /\ ServerMayTransmit)
    /\ \A i \in DOMAIN c2s :
          /\ StateMap[c2s[i].from].Agency = AgencyClient
          /\ c2s[i].type \in ValidMsgTypes(StateMap, c2s[i].from) \cap ClientMsgTypes
    /\ \A i \in DOMAIN s2c :
          (~srvFaulty \/ i < Len(s2c)) =>
              /\ StateMap[s2c[i].from].Agency = AgencyServer
              /\ s2c[i].type \in ValidMsgTypes(StateMap, s2c[i].from) \cap ServerMsgTypes
    /\ (lastSend.ok /\ ~lastSend.held) => StateMap[lastSend.from].Agency = AgencyClient
    /\ ~(c2s # <<>> /\ s2c # <<>>)

\* a pipelining client holds a RequestNext while the server, which has
\* agency, answers the one before; the client has been in states of both
\* agencies
C2_Witness ==
    /\ pending >= 1
    /\ state = stateMustReply
    /\ ServerMayTransmit
    /\ stateIntersect \in visited
    /\ stateCanAwait \in visited

\* RequestNext messages issued and not yet answered by a roll forward/backward
Unanswered == (nextReq - 1) - Len(callbacks)

\* the callbacks fired answer the requests in the order they were sent
CallbacksInRequestOrder == \A i \in DOMAIN callbacks : callbacks[i].req = i

ScenarioCounts == <<1, 2, 3, 2, 2, 1, 0>>

IsPrefix(p, q) == Len(p) <= Len(q) /\ \A i \in DOMAIN p : p[i] = q[i]

ThreeIssued == scenario.on /\ config.PipelineLimit = 3 /\ Len(scenario.counts) = 3

C4_WitnessIssued ==
    /\ ThreeIssued
    /\ lastSend.msg = MessageTypeRequestNext
    /\ lastSend.ok

\* C5: Done is a valid transition from Idle only; a Done send that is
\* accepted was made in Idle with nothing in flight and ends in Done; a Done
\* send made in any other state is rejected and leaves the state unchanged.
C5_DoneOnlyWhenIdle ==
    /\ \A s \in DOMAIN StateMap :
          MessageTypeDone \in ValidMsgTypes(StateMap, s) => s = stateIdle
    /\ (lastSend.msg = MessageTypeDone /\ lastSend.ok) =>
          /\ lastSend.from = stateIdle
          /\ lastSend.n = 0
          /\ Unanswered = 0
          /\ state = stateDone
    /\ (lastSend.msg = MessageTypeDone /\ lastSend.from # stateIdle) =>
          /\ ~lastSend.ok
          /\ lastSend.err \in {"AgencyViolation", "InvalidTransition"}
          /\ state = lastSend.from

\* a Done accepted after pipelined requests were answered
C5_Witness ==
    /\ lastSend.msg = MessageTypeDone
    /\ lastSend.ok
    /\ config.PipelineLimit >= 2
    /\ Len(callbacks) >= 2

\* a Done attempted while requests are in flight
C5_WitnessRejected ==
    /\ lastSend.msg = MessageTypeDone
    /\ ~lastSend.ok
    /\ inflight >= 2

-----------------------------------------------------------------------------
(* Handshake client: Start *)

\* C6: however many callers call Start, and however their calls interleave,
\* the protocol is started at most once and at most one message is handed to
\* SendMessage; once any call has returned it is exactly one start and
\* exactly one ProposeVersions.
C6_StartOnce ==
    /\ started <= 1
    /\ Len(sent) <= 1
    /\ (\E t \in Callers : pc[t] = "returned") =>
          /\ started = 1
          /\ Len(sent) = 1
          /\ sent[1].type = "ProposeVersions"

\* every caller has called Start and returned
C6_Witness ==
    /\ Cardinality(Callers) >= 2
    /\ \A t \in Callers : pc[t] = "returned"

ConfiguredVersions ==
    {hsConfig.ProtocolVersions[i] : i \in DOMAIN hsConfig.ProtocolVersions}

\* C7: the version map Start sends has exactly the configured versions as
\* keys; in NodeToNode mode every value is the list [NetworkMagic, true] if
\* ClientFullDuplex is set and [NetworkMagic, false] otherwise; in
\* NodeToClient mode every value is the plain NetworkMagic.
C7_VersionMap ==
    \A i \in DOMAIN sent :
        /\ DOMAIN sent[i].VersionMap = ConfiguredVersions
        /\ \A v \in DOMAIN sent[i].VersionMap :
              IF hsMode = "NodeToNode"
              THEN sent[i].VersionMap[v] =
                      [isList |-> TRUE,
                       elems |-> <<[t |-> "uint", n |-> hsConfig.NetworkMagic],
                                   [t |-> "bool",
                                    n |-> IF hsConfig.ClientFullDuplex THEN 1 ELSE 0]>>]
              ELSE sent[i].VersionMap[v] =
                      [isList |-> FALSE,
                       elems |-> <<[t |-> "uint", n |-> hsConfig.NetworkMagic]>>]

\* a full-duplex NodeToNode client has proposed two versions
C7_Witness ==
    /\ Len(sent) = 1
    /\ hsMode = "NodeToNode"
    /\ hsConfig.ClientFullDuplex
    /\ Cardinality(DOMAIN sent[1].VersionMap) = 2

-----------------------------------------------------------------------------
(* Handshake client: the message handlers *)

AcceptVersionHandled ==
    handled.delivered /\ handled.msg.type = "AcceptVersion"

RefuseHandled ==
    handled.delivered /\ handled.msg.type = "Refuse"

\* the version data has a diffusion-mode element: a list whose second
\* element is a bool
HasDiffusionMode(d) ==
    d.isList /\ Len(d.elems) >= 2 /\ d.elems[2].t = "bool"

\* C8: when AcceptVersion is handled with a FinishedFunc configured,
\* FinishedFunc is invoked exactly once, with the accepted version and with
\* fullDuplex true exactly when the mode is NodeToNode and the diffusion-mode
\* element of the version data is InitiatorAndResponder (never in
\* NodeToClient mode), and the handler returns what the callback returns.
C8_AcceptVersionCallback ==
    (AcceptVersionHandled /\ hsConfig.FinishedFunc # "nil")
    =>
    /\ finished =
          <<[version |-> handled.msg.Version,
             fullDuplex |-> /\ hsMode = "NodeToNode"
                            /\ HasDiffusionMode(handled.msg.VersionData)
                            /\ handled.msg.VersionData.elems[2].n = 1]>>
    /\ hsMode = "NodeToClient" => ~finished[1].fullDuplex
    /\ handled.ret = IF hsConfig.FinishedFunc = "returnsNil"
                     THEN Nil
                     ELSE Errorf("callback", 0)

\* the part of C8 the handler keeps: with version data that has the
\* diffusion-mode element in NodeToNode mode, and with any version data in
\* NodeToClient mode, the callback is invoked once as C8 says
C8_WellFormedAccept ==
    ( /\ AcceptVersionHandled
      /\ hsConfig.FinishedFunc # "nil"
      /\ hsMode = "NodeToNode" => HasDiffusionMode(handled.msg.VersionData) )
    => C8_AcceptVersionCallback

\* a NodeToNode accept whose version data has no diffusion-mode element, a
\* FinishedFunc being configured: the handler panics, nothing is called
C8_Panics ==
    /\ AcceptVersionHandled
    /\ hsMode = "NodeToNode"
    /\ hsConfig.FinishedFunc # "nil"
    /\ ~HasDiffusionMode(handled.msg.VersionData)
    /\ handled.ret = Panic
    /\ finished = <<>>

\* C9: AcceptVersion handled with no FinishedFunc registered returns an
\* error (neither nil nor a panic) and invokes no callback, in every mode
\* and whatever the version data, well formed or not.
C9_NoCallbackIsError ==
    (AcceptVersionHandled /\ hsConfig.FinishedFunc = "nil") =>
        /\ handled.ret.kind = "error"
        /\ finished = <<>>

\* no callback, NodeToNode, and version data that is no list
C9_Witness ==
    /\ AcceptVersionHandled
    /\ hsConfig.FinishedFunc = "nil"
    /\ hsMode = "NodeToNode"
    /\ ~handled.msg.VersionData.isList

\* C10: every Refuse handled, whatever its reason discriminant, ends in a
\* failure of the protocol (the handler does not return nil) and invokes no
\* callback.
C10_RefuseIsError ==
    RefuseHandled =>
        /\ handled.ret.kind # "nil"
        /\ finished = <<>>

\* C11: when the reason of the Refuse is VersionMismatch, the error the
\* handler returns carries the list of versions the server supports, so
\* refusals with different lists give different errors.
C11_MismatchCarriesVersions ==
    ( /\ RefuseHandled
      /\ handled.msg.Reason[1] = [t |-> "uint", n |-> 0]
      /\ Len(handled.msg.Reason) >= 2 )
    =>
    /\ handled.ret.kind = "error"
    /\ handled.ret.detail = handled.msg.Reason[2].n

\* the state map a client was built with
ClientStateMap(i) == stateMaps[clients[i].StateMap]

\* C12: in the state map a handshake client is built with, Confirm carries
\* the configured timeout and every other state is as the handshake state
\* map declares it, without a timeout from the client; Propose, where the
\* client has agency, has no timeout.
C12_TimeoutOnConfirmOnly ==
    \A i \in DOMAIN clients :
        /\ DOMAIN ClientStateMap(i) = DOMAIN HandshakeStateMap
        /\ ClientStateMap(i)[stateConfirm].Timeout = clients[i].config.Timeout
        /\ \A s \in DOMAIN ClientStateMap(i) \ {stateConfirm} :
               ClientStateMap(i)[s] = HandshakeStateMap[s]
        /\ ClientStateMap(i)[statePropose].Agency = AgencyClient
        /\ ClientStateMap(i)[statePropose].Timeout = 0

C12_Witness ==
    \E i \in DOMAIN clients :
        /\ clients[i].config.Timeout = 30
        /\ ClientStateMap(i)[stateConfirm].Timeout = 30

\* C13: while the client waits in Confirm the deadline of its configured
\* timeout is running; once it has fired the protocol has failed with
\* StateTimeout, no message has been or is delivered to the handler and
\* FinishedFunc is not invoked, whatever arrives afterwards.
C13_TimeoutStopsDelivery ==
    /\ (hsState = stateConfirm /\ ~handled.any) =>
           /\ hsStateMap[hsState].Agency = AgencyServer
           /\ hsStateMap[hsState].Timeout = hsConfig.Timeout
           /\ hsConfig.Timeout > 0 => (hsError = NoError => ENABLED StateTimeout)
    /\ hsError.kind = "StateTimeout" =>
           /\ hsError.state = stateConfirm
           /\ hsError.after = hsConfig.Timeout
           /\ hsState = stateConfirm
           /\ ~handled.any
           /\ finished = <<>>
    /\ dropped # <<>> => hsError # NoError

C13_Witness ==
    /\ hsError.kind = "StateTimeout"
    /\ dropped = <<MessageTypeAcceptVersion>>
    /\ hsConfig.FinishedFunc = "returnsNil"
    /\ finished = <<>>

\* C20: constructing handshake clients leaves the package's StateMap as it
\* was: each client has the timeout of its own configuration on Confirm, in
\* a state map of its own.
C20_SharedStateMapUnchanged ==
    /\ stateMaps[1] = HandshakeStateMap
    /\ \A i \in DOMAIN clients :
           ClientStateMap(i)[stateConfirm].Timeout = clients[i].config.Timeout

C20_Witness ==
    /\ Len(clients) = MaxClients
    /\ \E i, j \in DOMAIN clients :
           /\ clients[i].config.Timeout = 10
           /\ clients[j].config.Timeout = 30
           /\ ClientStateMap(i)[stateConfirm].Timeout = 10
           /\ ClientStateMap(j)[stateConfirm].Timeout = 30

\* the positions in the option list of the options that set a field
OptionsFor(field) == {i \in DOMAIN options : options[i].opt = field}

LastOptionFor(field) ==
    CHOOSE i \in OptionsFor(field) : \A j \in OptionsFor(field) : j <= i

\* C14: NewConfig without options gives PipelineLimit 0, IntersectTimeout
\* 5 s, BlockTimeout 180 s and no callbacks; with options every field has
\* the value of the last option given for it, and its default if no option
\* names it.
C14_NewConfigDefaultsAndOptions ==
    LET defaults == [PipelineLimit |-> 0, IntersectTimeout |-> 5, BlockTimeout |-> 180,
                     RollBackwardFunc |-> "nil", RollForwardFunc |-> "nil"]
    IN /\ DOMAIN config = DOMAIN defaults
       /\ options = <<>> => config = defaults
       /\ \A field \in DOMAIN defaults :
              config[field] = IF OptionsFor(field) = {}
                              THEN defaults[field]
                              ELSE options[LastOptionFor(field)].val

C14_Witness ==
    /\ options = <<WithBlockTimeout(60), WithPipelineLimit(2), WithBlockTimeout(300)>>
    /\ config.BlockTimeout = 300
    /\ config.PipelineLimit = 2
    /\ config.IntersectTimeout = 5

\* the predefined networks
PredefinedNetworks == {NetworkTestnet, NetworkMainnet, NetworkPreprod, NetworkPreview}

\* the predefined networks that have the key a lookup asked for
Matching(l) ==
    {n \in PredefinedNetworks :
        \/ l.by = "Name" /\ n.Name = l.name
        \/ l.by = "Id" /\ n.Id = l.num
        \/ l.by = "NetworkMagic" /\ n.NetworkMagic = l.num}

\* C15: each lookup returns the predefined network that has the key asked
\* for, and NetworkInvalid exactly when none has it; names, ids and magics
\* are unique among the predefined networks, and the three lookups by the
\* keys of a predefined network all return that network.
C15_LookupsFindByKey ==
    /\ \A i \in DOMAIN lookups :
           /\ Matching(lookups[i]) # {} => lookups[i].result \in Matching(lookups[i])
           /\ lookups[i].result = NetworkInvalid <=> Matching(lookups[i]) = {}
    /\ \A n, m \in PredefinedNetworks :
           n # m => /\ n.Name # m.Name
                    /\ n.Id # m.Id
                    /\ n.NetworkMagic # m.NetworkMagic
    /\ \A n \in PredefinedNetworks :
           /\ NetworkByName(n.Name) = n
           /\ NetworkById(n.Id) = n
           /\ NetworkByNetworkMagic(n.NetworkMagic) = n

C15_Witness ==
    /\ Len(lookups) = 2
    /\ lookups[1] = [by |-> "NetworkMagic", name |-> "", num |-> 2, result |-> NetworkPreview]
    /\ lookups[2] = [by |-> "Name", name |-> "Mainnet", num |-> 0, result |-> NetworkInvalid]

\* C16: StakeAddress returns nil unless the address type is key/key or
\* script/key; for these it returns a new address of type none/key with the
\* network id of the original, no payment part and the staking part of the
\* original, and the original is as it was populated.
C16_StakeAddress ==
    stakeAddr.called =>
        /\ stakeAddr.isNil <=> addr.addressType \notin {addressTypeKeyKey, addressTypeScriptKey}
        /\ ~stakeAddr.isNil =>
               /\ stakeAddr.a.addressType = addressTypeNoneKey
               /\ stakeAddr.a.networkId = addr.networkId
               /\ stakeAddr.a.paymentAddress = <<>>
               /\ stakeAddr.a.stakingAddress = addr.stakingAddress
        /\ addr = populateFromBytes(ZeroAddress, addrData, addrSpare).a

C16_Witness ==
    /\ stakeAddr.called
    /\ ~stakeAddr.isNil
    /\ addr.addressType = addressTypeScriptKey
    /\ addr.networkId = 1
    /\ Len(addr.paymentAddress) = addressHashSize
    /\ Len(stakeAddr.a.stakingAddress) = addressHashSize
    /\ stakeAddr.a.stakingAddress # addr.paymentAddress

C16_WitnessNil ==
    /\ stakeAddr.called
    /\ stakeAddr.isNil
    /\ addr.addressType = addressTypeKeyScript
    /\ Len(addr.stakingAddress) = addressHashSize

\* C17: AwaitReply is valid in CanAwait only and leads to MustReply, from
\* where only RollForward and RollBackward are valid, both to Idle; the
\* client accepts an AwaitReply only in CanAwait, so at most one for a
\* RequestNext, and a second one, received in MustReply, is a protocol
\* violation that fails the protocol.
C17_OneAwaitReplyThenRoll ==
    /\ \A s \in DOMAIN StateMap :
           MessageTypeAwaitReply \in ValidMsgTypes(StateMap, s) <=> s = stateCanAwait
    /\ getNewState(StateMap, stateCanAwait, MessageTypeAwaitReply) = stateMustReply
    /\ ValidMsgTypes(StateMap, stateMustReply) =
           {MessageTypeRollForward, MessageTypeRollBackward}
    /\ \A m \in ValidMsgTypes(StateMap, stateMustReply) :
           getNewState(StateMap, stateMustReply, m) = stateIdle
    /\ lastRecv.msg = MessageTypeAwaitReply =>
           /\ lastRecv.ok <=> lastRecv.from = stateCanAwait
           /\ lastRecv.ok => state = stateMustReply /\ ~failed
           /\ ~lastRecv.ok => state = lastRecv.from /\ failed
    /\ (lastRecv.msg # "none" /\ lastRecv.from = stateMustReply) =>
           /\ lastRecv.ok <=>
                  lastRecv.msg \in {MessageTypeRollForward, MessageTypeRollBackward}
           /\ lastRecv.ok => state \in {stateIdle, stateCanAwait}
           /\ (lastRecv.ok /\ state = stateCanAwait) => inflight >= 1

\* a second AwaitReply reached the client in MustReply
C17_Witness ==
    /\ lastRecv = [msg |-> MessageTypeAwaitReply, ok |-> FALSE, from |-> stateMustReply]
    /\ state = stateMustReply
    /\ failed

\* C18: Done has agency None and no transition: no message sent or received
\* is valid in it, and a client that has reached Done stays in Done whatever
\* it tries to send and whatever reaches it.
C18_DoneIsTerminal ==
    /\ StateMap[stateDone].Agency = AgencyNone
    /\ StateMap[stateDone].Transitions = <<>>
    /\ \A m \in MsgTypes :
           /\ ~SendPermitted(StateMap, stateDone, m)
           /\ ~RecvPermitted(StateMap, stateDone, m)
    /\ stateDone \in visited => state = stateDone
    /\ (lastSend.msg # "none" /\ lastSend.from = stateDone) =>
           ~lastSend.ok /\ state = stateDone
    /\ (lastRecv.msg # "none" /\ lastRecv.from = stateDone) =>
           ~lastRecv.ok /\ state = stateDone

\* a message reached the client in Done
C18_Witness ==
    /\ state = stateDone
    /\ lastRecv.msg = MessageTypeRollForward
    /\ lastRecv.from = stateDone
    /\ ~lastRecv.ok

\* the client tried to send in Done
C18_WitnessSend ==
    /\ state = stateDone
    /\ lastSend.msg = MessageTypeRequestNext
    /\ lastSend.from = stateDone
    /\ ~lastSend.ok

\* C19: when the reply to FindIntersect, IntersectFound or
\* IntersectNotFound, has been received the client is in Idle with agency,
\* the protocol has not failed, and FindIntersect, RequestNext and Done are
\* permitted; what the client sends next is accepted.
C19_IntersectReplyBackToIdle ==
    LET replies == {MessageTypeIntersectFound, MessageTypeIntersectNotFound}
    IN /\ (lastRecv.msg \in replies /\ lastRecv.ok) =>
              /\ lastRecv.from = stateIntersect
              /\ state = stateIdle
              /\ ~failed
              /\ StateMap[state].Agency = AgencyClient
              /\ \A m \in {MessageTypeFindIntersect, MessageTypeRequestNext, MessageTypeDone} :
                     SendPermitted(StateMap, state, m)
       /\ (lastRecv.msg \in replies /\ lastRecv.from = stateIntersect) => lastRecv.ok
       /\ lastSend.after \in replies =>
              /\ lastSend.from = stateIdle
              /\ lastSend.ok
              /\ state = getNewState(StateMap, stateIdle, lastSend.msg)

\* FindIntersect sent again after IntersectNotFound
C19_Witness ==
    /\ lastSend.msg = MessageTypeFindIntersect
    /\ lastSend.after = MessageTypeIntersectNotFound
    /\ lastSend.ok
    /\ finds = 2
    /\ state = stateIntersect

\* C21: for every message whose type is neither AcceptVersion nor Refuse
\* handleMessage returns an error and no callback is invoked.
C21_UnexpectedTypeIsError ==
    (handled.any /\ handled.msg.type \notin {MessageTypeAcceptVersion, MessageTypeRefuse}) =>
        /\ handled.ret.kind = "error"
        /\ finished = <<>>

\* a ProposeVersions handed to the handler of a client that has a callback
C21_Witness ==
    /\ handled.delivered
    /\ handled.msg.type = MessageTypeProposeVersions
    /\ handled.ret = Errorf("received unexpected message type", 0)
    /\ hsConfig.FinishedFunc = "returnsNil"
    /\ finished = <<>>

\* C22: FinishedFunc is told fullDuplex = true only by a client configured
\* with ClientFullDuplex = true, whatever version data the server sent.
C22_FullDuplexOnlyIfAsked ==
    \A i \in DOMAIN finished :
        finished[i].fullDuplex => hsConfig.ClientFullDuplex

\* the states one valid message leads to
Successors(sm, s) == {t.NewState : t \in TransitionsOf(sm, s)}

\* the states sequences of valid messages lead to from the states in S
RECURSIVE ReachableFrom(_, _)
ReachableFrom(sm, S) ==
    LET next == S \cup UNION {Successors(sm, s) : s \in S \cap DOMAIN sm}
    IN IF next = S THEN S ELSE ReachableFrom(sm, next)

\* C23: every transition of the StateMap targets a state of the map, every
\* state of the map is reachable from Idle by valid messages, and from
\* every reachable state other than the terminal one valid messages lead to
\* Done; the states the client goes through are among them.
C23_NoDeadState ==
    /\ \A s \in DOMAIN StateMap : Successors(StateMap, s) \subseteq DOMAIN StateMap
    /\ ReachableFrom(StateMap, {stateIdle}) = DOMAIN StateMap
    /\ \A s \in ReachableFrom(StateMap, {stateIdle}) :
           s # stateDone =>
              /\ Successors(StateMap, s) # {}
              /\ stateDone \in ReachableFrom(StateMap, {s})
    /\ visited \subseteq ReachableFrom(StateMap, {stateIdle})
    /\ state \in visited

\* a client that has been in every state of the map and ended in Done
C23_Witness ==
    /\ visited = {stateIdle, stateCanAwait, stateMustReply, stateIntersect, stateDone}
    /\ state = stateDone
    /\ ~failed

\* C24: the network a successful lookup returns differs from NetworkInvalid
\* in each of Id, Name and NetworkMagic, so comparing any one of these
\* fields tells a found network from a failed lookup.
C24_InvalidDiffersInEveryKey ==
    \A i \in DOMAIN lookups :
        Matching(lookups[i]) # {} =>
            /\ lookups[i].result.Id # NetworkInvalid.Id
            /\ lookups[i].result.Name # NetworkInvalid.Name
            /\ lookups[i].result.NetworkMagic # NetworkInvalid.NetworkMagic

\* C25: for every byte string of 29 or more bytes, of every address type,
\* Bytes of the Address populated from it is that byte string.
C25_BytesRoundTrip ==
    (addrBytes.called /\ Len(addrData) >= addressHashSize + 1) =>
        addrBytes.bytes = addrData

\* the round trip of the header byte, and of the whole for the types that
\* have a payment part
HeaderRoundTrip ==
    addrBytes.called =>
        /\ addrBytes.bytes[1] = addrData[1]
        /\ addr.addressType \notin {addressTypeNoneKey, addressTypeNoneScript} =>
               addrBytes.bytes = addrData
        /\ Len(addrData) = addressHashSize + 1 => addrBytes.bytes = addrData

\* C26: input of fewer than 29 bytes, the empty one included, is reported
\* as an error: populating the Address does not abort with an out-of-range
\* access and leaves no partially filled Address.
C26_ShortInputIsError ==
    (addrStatus # "new" /\ Len(addrData) < addressHashSize + 1) =>
        /\ addrStatus = "error"
        /\ addr = ZeroAddress

====
